---- MODULE Spec2Model ----
(***************************************************************************)
(* Model of the registry access layer of npm-mcp                           *)
(* (src/src/registry-client.ts): the RegistryClient with its LRU/TTL       *)
(* response cache, its p-limit concurrency limiter and the recursive       *)
(* fetchWithRetry routine, driven by concurrent logical calls and by a     *)
(* transport that answers every network attempt nondeterministically.      *)
(***************************************************************************)
EXTENDS Integers, Sequences, FiniteSets, TLC

VARIABLES
    config,     \* the RegistryClientConfig handed to the constructor
    maxRetries, \* this.maxRetries
    cache,      \* this.cache: [max, ttl, entries], entries least recently used first
    limiter,    \* this.limiter: [concurrency, activeCount, queue]
    now,        \* the clock the cache reads (ticks)
    pc,         \* position of every logical call
    url,        \* the request URL of every call
    attempt,    \* RetryConfig.attempt of the running fetchWithRetry frame
    result,     \* how the call settled: the value or the error
    requests,   \* transport double: number of fetch() invocations per call
    log,        \* transport double: the outcome served to each attempt, in order
    delay,      \* the backoff delay (ms) the call last went to sleep for
    request,    \* the operation and the arguments every call was made with
    stats,      \* the object last returned by getCacheStats()
    tool        \* the analysis tool being run on top of the client

vars == <<config, maxRetries, cache, limiter, now, pc, url, attempt, result, requests, log,
          delay, request, stats, tool>>

(***************************************************************************)
(* Bounds of the model                                                     *)
(***************************************************************************)
ConcCalls == 3      \* call handles (concurrent callers) in the concurrency specification
MaxTime == 2        \* last clock tick
TTLCalls == 3       \* calls made one after the other in the expiry specification
LRUCalls == 4       \* calls made one after the other in the eviction specification
SlotCalls == 2      \* call handles (concurrent callers) in the slot specification
KeyCalls == 2       \* calls made one after the other in the cache-key specification

(***************************************************************************)
(* Program constants                                                       *)
(***************************************************************************)
DefaultMaxRetries == 3
DefaultMaxConcurrent == 10
DefaultCacheMaxSize == 500
DefaultCacheTTL == 300000
BaseDelay == 1000

Omitted == -1       \* an option left out of the config object (undefined)

\* JavaScript `v || d` on an optional number: undefined and 0 are falsy
OrDefault(v, d) == IF v = Omitted \/ v = 0 THEN d ELSE v

(***************************************************************************)
(* JSON values and errors                                                  *)
(***************************************************************************)
Json(type, text) == [type |-> type, text |-> text]
NoValue == Json("undefined", "")

\* the body of a search without a match
EmptySearch == Json("object", "{objects:[],total:0}")

\* mutant: an empty result list is not taken for a hit
TruthyNonEmpty(v) == v.type = "object" /\ v # EmptySearch

\* mutant: the lookup result is never taken for a hit
TruthyNever(v) == FALSE

\* JavaScript truthiness of a parsed JSON value (the test `if (cached)`)
Truthy(v) ==
    CASE v.type = "undefined" -> FALSE
      [] v.type = "null"      -> FALSE
      [] v.type = "boolean"   -> v.text = "true"
      [] v.type = "number"    -> v.text # "0"
      [] v.type = "string"    -> v.text # ""
      [] OTHER                -> TRUE

\* the value null, whose properties cannot be read
IsNull(v) == v.type = "null"

\* An error object: its name and its message, the message a sequence of tokens
Err(name, message) == [name |-> name, message |-> message]
NoError == Err("", <<>>)

NotFoundMsg == <<"Package", "not found">>
RateLimitMsg == <<"Rate limit exceeded.", "Please try again later.">>
TimeoutMsg == <<"Request timeout">>

\* String.prototype.includes, at the granularity of tokens
Includes(message, token) == \E i \in DOMAIN message : message[i] = token

Returned(v) == [tag |-> "return", value |-> v, error |-> NoError]
Thrown(e) == [tag |-> "throw", value |-> NoValue, error |-> e]
Retry == [tag |-> "retry", value |-> NoValue, error |-> NoError]
Pending == [tag |-> "none", value |-> NoValue, error |-> NoError]

(***************************************************************************)
(* URL construction of the four operations.  A string is the sequence of  *)
(* its tokens: the separators "/", "?", "&", "=", "@", " " and the words   *)
(* between them; a URL is the string the template literal builds.          *)
(***************************************************************************)
RegistryUrl == "https://registry.npmjs.org"
StatsUrl == "https://api.npmjs.org/downloads/point"

\* encodeURIComponent on a string given as tokens: the separators are escaped
EncodeToken(t) ==
    CASE t = "@" -> "%40" [] t = "/" -> "%2F" [] t = "?" -> "%3F"
      [] t = "&" -> "%26" [] t = "=" -> "%3D" [] t = " " -> "%20" [] OTHER -> t
EncodeURIComponent(name) == [i \in DOMAIN name |-> EncodeToken(name[i])]

\* new URLSearchParams({text, size, from}) as the template literal prints it:
\* form encoding, which differs from encodeURIComponent in the space
URLSearchParams(text, size, from) ==
    <<"text", "=">> \o [i \in DOMAIN text |-> IF text[i] = " " THEN "+" ELSE EncodeToken(text[i])]
        \o <<"&", "size", "=", size, "&", "from", "=", from>>

NoUrl == <<>>

GetPackageUrl(name) == <<RegistryUrl, "/">> \o EncodeURIComponent(name)
\* the version is interpolated as it is
GetPackageVersionUrl(name, version) ==
    <<RegistryUrl, "/">> \o EncodeURIComponent(name) \o <<"/">> \o version
SearchPackagesUrl(query, limit, offset) ==
    <<RegistryUrl, "/", "-", "/", "v1", "/", "search", "?">>
        \o URLSearchParams(query, ToString(OrDefault(limit, 20)), ToString(OrDefault(offset, 0)))
GetDownloadStatsUrl(name, period) ==
    <<StatsUrl, "/", period, "/">> \o EncodeURIComponent(name)

\* a call of one of the four operations: its name and its arguments, the
\* package name or query, the version or period, and the search options
Request(op, subject, detail, limit, offset) ==
    [op |-> op, subject |-> subject, detail |-> detail, limit |-> limit, offset |-> offset]
NoRequest == Request("", <<>>, <<>>, Omitted, Omitted)

\* the URL the operation hands to fetchWithCache
RequestUrl(r) ==
    CASE r.op = "getPackage"        -> GetPackageUrl(r.subject)
      [] r.op = "getPackageVersion" -> GetPackageVersionUrl(r.subject, r.detail)
      [] r.op = "searchPackages"    -> SearchPackagesUrl(r.subject, r.limit, r.offset)
      [] r.op = "getDownloadStats"  -> GetDownloadStatsUrl(r.subject, r.detail[1])

(***************************************************************************)
(* The LRU cache with time-to-live (lru-cache as configured in the         *)
(* constructor: ttl set, no age update on get, no automatic purge)         *)
(***************************************************************************)
Entry(k, v, t) == [key |-> k, value |-> v, start |-> t]

Keys(entries) == {entries[i].key : i \in DOMAIN entries}
IndexOf(entries, k) == CHOOSE i \in DOMAIN entries : entries[i].key = k
Without(entries, k) == SelectSeq(entries, LAMBDA e : e.key # k)

\* mutant: an entry expires one tick early
IsStaleEarly(c, e, t) == t - e.start >= c.ttl

IsStale(c, e, t) == t - e.start > c.ttl

\* cache.get(k): the stored value, undefined when absent or stale
CacheGet(c, k, t) ==
    IF k \notin Keys(c.entries) THEN NoValue
    ELSE LET e == c.entries[IndexOf(c.entries, k)]
         IN  IF IsStale(c, e, t) THEN NoValue ELSE e.value

\* mutant: a read restarts the age of the entry (updateAgeOnGet)
TouchedRefresh(e, t) == Entry(e.key, e.value, t)

\* the entry after a read: its start time stays (updateAgeOnGet is not set)
Touched(e, t) == e

\* mutant: a read leaves the recency order as it is
CacheTouchNoRecency(c, k, t) ==
    IF k \notin Keys(c.entries) THEN c
    ELSE LET e == c.entries[IndexOf(c.entries, k)]
         IN  IF IsStale(c, e, t)
             THEN [c EXCEPT !.entries = Without(c.entries, k)]
             ELSE c

\* the cache after cache.get(k): a stale entry is deleted, a live one
\* becomes the most recently used
CacheTouch(c, k, t) ==
    IF k \notin Keys(c.entries) THEN c
    ELSE LET e == c.entries[IndexOf(c.entries, k)]
         IN  IF IsStale(c, e, t)
             THEN [c EXCEPT !.entries = Without(c.entries, k)]
             ELSE [c EXCEPT !.entries = Append(Without(c.entries, k), Touched(e, t))]

\* mutant: the first value stored under a key stays, later ones are dropped
CacheSetKeepFirst(c, k, v, t) ==
    IF k \in Keys(c.entries) THEN c
    ELSE IF Len(c.entries) >= c.max
         THEN [c EXCEPT !.entries = Append(Tail(c.entries), Entry(k, v, t))]
         ELSE [c EXCEPT !.entries = Append(c.entries, Entry(k, v, t))]

\* mutant: the result is never stored
CacheSetDropped(c, k, v, t) == c

\* the cache after cache.set(k, v): an existing entry is overwritten and its
\* age restarted, a new one evicts the least recently used entry when full
CacheSet(c, k, v, t) ==
    IF k \in Keys(c.entries)
    THEN [c EXCEPT !.entries = Append(Without(c.entries, k), Entry(k, v, t))]
    ELSE IF Len(c.entries) >= c.max
         THEN [c EXCEPT !.entries = Append(Tail(c.entries), Entry(k, v, t))]
         ELSE [c EXCEPT !.entries = Append(c.entries, Entry(k, v, t))]

\* mutant: clearing does nothing
CacheClearNothing(c) == c

\* mutant: only the least recently used entry is dropped
CacheClearOldest(c) == [c EXCEPT !.entries = IF c.entries = <<>> THEN <<>> ELSE Tail(c.entries)]

CacheClear(c) == [c EXCEPT !.entries = <<>>]

\* getCacheStats()
GetCacheStats == [size |-> Len(cache.entries), max |-> cache.max]

\* getCacheStats() has not been called yet
NoStats == [size |-> Omitted, max |-> Omitted]

\* the key -> value content of the cache, recency and age left out
Content(c) == [k \in Keys(c.entries) |-> c.entries[IndexOf(c.entries, k)].value]

(***************************************************************************)
(* What the transport can answer to one network attempt                    *)
(***************************************************************************)
Outcome(kind, status, body, error, reason, message) ==
    [kind |-> kind, status |-> status, body |-> body,
     error |-> error, reason |-> reason, message |-> message]

\* a response whose body parses as JSON: `body` for a success, the
\* RegistryError fields `error` and `reason` (<<>> when absent) otherwise
Ok(body) == Outcome("response", 200, body, <<>>, <<>>, <<>>)
Status(status, error, reason) == Outcome("response", status, NoValue, error, reason, <<>>)
\* a response whose body is not JSON
Malformed(status) == Outcome("malformed", status, NoValue, <<>>, <<>>, <<>>)
\* the abort timer fired before the response arrived
Aborted == Outcome("abort", 0, NoValue, <<>>, <<>>, <<>>)
\* fetch() rejected with a transport error carrying this message
NetworkError(message) == Outcome("neterr", 0, NoValue, <<>>, <<>>, message)


(***************************************************************************)
(* fetchWithRetry, one frame: the try block and the catch block            *)
(***************************************************************************)
\* the message of the Error built from a RegistryError body
HttpErrorMessage(status, error, reason) ==
    IF error # <<>> THEN error
    ELSE <<"HTTP", ToString(status)>> \o (IF reason # <<>> THEN reason ELSE <<"Unknown error">>)

\* mutant: one retry too many
HasBudgetOffByOne(att, maxAttempts) == att <= maxAttempts

\* config.attempt < config.maxAttempts
HasBudget(att, maxAttempts) == att < maxAttempts

TryBlock(o, att, maxAttempts) ==
    CASE o.kind = "abort"  -> Thrown(Err("AbortError", <<"This operation was aborted">>))
      [] o.kind = "neterr" -> Thrown(Err("TypeError", o.message))
      [] o.status = 429 ->
            IF HasBudget(att, maxAttempts) THEN Retry ELSE Thrown(Err("Error", RateLimitMsg))
      [] o.status = 404 -> Thrown(Err("Error", NotFoundMsg))
      [] o.kind = "malformed" -> Thrown(Err("SyntaxError", <<"Unexpected token">>))
      [] o.status >= 400 ->
            Thrown(Err("Error", HttpErrorMessage(o.status, o.error, o.reason)))
      [] OTHER -> Returned(o.body)

\* mutant: every thrown error is taken for a network error
IsRetryableMessageAny(message) == TRUE

IsRetryableMessage(message) ==
    \/ Includes(message, "ECONNRESET")
    \/ Includes(message, "ETIMEDOUT")
    \/ Includes(message, "fetch failed")

\* mutant: network errors are retried on a budget of their own, which the
\* retries after 429 responses do not use up
CatchBlockOwnBudget(e, att, maxAttempts) ==
    IF e.name = "AbortError" THEN Thrown(Err("Error", TimeoutMsg))
    ELSE IF IsRetryableMessage(e.message) /\ e.name = "TypeError" /\ att <= maxAttempts THEN Retry
    ELSE Thrown(e)

\* mutant: a transient error with the budget used up surfaces as the
\* rate-limit error
CatchBlockRateLimit(e, att, maxAttempts) ==
    IF e.name = "AbortError" THEN Thrown(Err("Error", TimeoutMsg))
    ELSE IF IsRetryableMessage(e.message) /\ HasBudget(att, maxAttempts) THEN Retry
    ELSE IF IsRetryableMessage(e.message) THEN Thrown(Err("Error", RateLimitMsg))
    ELSE Thrown(e)

CatchBlock(e, att, maxAttempts) ==
    IF e.name = "AbortError" THEN Thrown(Err("Error", TimeoutMsg))
    ELSE IF IsRetryableMessage(e.message) /\ HasBudget(att, maxAttempts) THEN Retry
    ELSE Thrown(e)

\* the outcome of one frame: "return", "throw", or "retry" (sleep, then recurse)
FetchFrame(o, att, maxAttempts) ==
    LET r == TryBlock(o, att, maxAttempts)
    IN  IF r.tag = "throw" THEN CatchBlock(r.error, att, maxAttempts) ELSE r

(***************************************************************************)
(* calculateBackoff, in IEEE 754 double arithmetic.  The doubles that occur *)
(* are whole numbers of milliseconds, or lie a few units in the last place  *)
(* below one: Double(ms, below) is the number ms - below * 2^-43, where     *)
(* 2^-43 is the spacing of the doubles in [512, 1024).                      *)
(***************************************************************************)
Double(ms, below) == [ms |-> ms, below |-> below]

\* a value of Math.random(), a multiple of 2^-53 in [0, 1):
\* Random(n, m) is n / 1000 - m * 2^-53
Random(n, m) == [thousandths |-> n, below |-> m]

\* n / s rounded to the nearest integer, ties to even
RoundHalfEven(n, s) ==
    LET q == n \div s
        r == n % s
    IN  IF 2 * r < s THEN q
        ELSE IF 2 * r > s THEN q + 1
        ELSE IF q % 2 = 0 THEN q ELSE q + 1

\* the spacing of the doubles just below the whole number ms > 512, in
\* units of 2^-43
RECURSIVE Spacing(_)
Spacing(ms) == IF ms <= 1024 THEN 1 ELSE 2 * Spacing((ms + 1) \div 2)

\* random * 1000: exact for 0 and 1/2, rounded to the nearest double below
\* 1000 for the values near 1
Times1000(random) ==
    IF random.below = 0 THEN Double(random.thousandths, 0)
    ELSE Double(random.thousandths, RoundHalfEven(1000 * random.below, 1024))

\* exponentialDelay + jitter, rounded to the nearest double
Plus(exponentialDelay, jitter) ==
    IF jitter.below = 0 THEN Double(exponentialDelay + jitter.ms, 0)
    ELSE LET sum == exponentialDelay + jitter.ms
             s == Spacing(sum)
         IN  Double(sum, s * RoundHalfEven(jitter.below, s))

\* mutant: the delay grows linearly with the attempt
CalculateBackoffLinear(att, random) == Plus(BaseDelay * (att + 1), Times1000(random))

\* calculateBackoff: exponentialDelay + jitter, with random the value that
\* Math.random() returns
CalculateBackoff(att, random) == Plus(BaseDelay * 2^att, Times1000(random))

(***************************************************************************)
(* The limiter (p-limit): a counter of running functions and a FIFO queue  *)
(***************************************************************************)
Calls == DOMAIN pc

\* mutant: one function too many is let through
HasFreeSlotOffByOne(l) == l.activeCount <= l.concurrency

HasFreeSlot(l) == l.activeCount < l.concurrency

\* mutant: the slot of a settled call is never given back
ReleaseLeak(l) ==
    IF l.queue # <<>> THEN [l EXCEPT !.queue = Tail(l.queue)]
    ELSE l

\* a call that settles gives its slot to the head of the queue, if any
Release(l) ==
    IF l.queue # <<>> THEN [l EXCEPT !.queue = Tail(l.queue)]
    ELSE [l EXCEPT !.activeCount = l.activeCount - 1]

\* mutant: the slot is given back for the time of a backoff sleep
WhileSleepingReleased(l) == [l EXCEPT !.activeCount = l.activeCount - 1]

\* the limiter while a frame sleeps before its next attempt: the promise of
\* the outermost fetchWithRetry, which the limiter awaits, is still pending
WhileSleeping(l) == l

\* mutant: the function that was queued last is started (a stack)
DequeuedNewest(l) == IF l.queue # <<>> THEN {l.queue[Len(l.queue)]} ELSE {}

\* mutant: the function taken off the queue is never started
DequeuedNever(l) == {}

\* the call whose queued function starts when a slot is released
Dequeued(l) == IF l.queue # <<>> THEN {Head(l.queue)} ELSE {}

(***************************************************************************)
(* The analysis tools built on the client                                  *)
(***************************************************************************)
ToolNames ==
    {"searchPackages", "getPackageDetails", "compareVersions", "checkCompatibility",
     "analyzeQuality", "analyzeNpxCommand", "auditSecurity", "analyzeCapabilities"}

\* the input of a tool: its package name, query or command (a string as
\* tokens, <<>> the empty string) and, for the search, its limit
Params(subject, limit) == [subject |-> subject, limit |-> limit]

\* the zod schemas: z.string().min(1), z.number().int().min(1).max(50)
SearchPackagesSchema(p) == p.subject # <<>> /\ (p.limit = Omitted \/ p.limit \in 1..50)
PackageDetailsSchema(p) == p.subject # <<>>
CompareVersionsSchema(p) == p.subject # <<>>
CheckCompatibilitySchema(p) == p.subject # <<>>
AnalyzeQualitySchema(p) == p.subject # <<>>
AnalyzeNpxCommandSchema(p) == p.subject # <<>>
AuditSecuritySchema(p) == p.subject # <<>>
AnalyzeCapabilitiesSchema(p) == p.subject # <<>>

\* mutant: no input is rejected
ParsesAnything(t, p) == TRUE

\* Schema.parse(params) of tool t does not throw
Parses(t, p) ==
    CASE t = "searchPackages"      -> SearchPackagesSchema(p)
      [] t = "getPackageDetails"   -> PackageDetailsSchema(p)
      [] t = "compareVersions"     -> CompareVersionsSchema(p)
      [] t = "checkCompatibility"  -> CheckCompatibilitySchema(p)
      [] t = "analyzeQuality"      -> AnalyzeQualitySchema(p)
      [] t = "analyzeNpxCommand"   -> AnalyzeNpxCommandSchema(p)
      [] t = "auditSecurity"       -> AuditSecuritySchema(p)
      [] t = "analyzeCapabilities" -> AnalyzeCapabilitiesSchema(p)

\* validated.limit: the schema default is 10
ValidatedLimit(p) == IF p.limit = Omitted THEN 10 ELSE p.limit

\* analyzeNpxCommand: command.match(/^(@?[^@\s]+)(?:@([^\s]+))?$/), on tokens
\* none of which contains "@" or white space unless it is "@" or " "
VersionSigns(command) == {i \in 2..Len(command) : command[i] = "@"}
FirstSign(command) == CHOOSE i \in VersionSigns(command) : \A j \in VersionSigns(command) : i <= j
PackageName(command) ==
    IF VersionSigns(command) = {} THEN command
    ELSE SubSeq(command, 1, FirstSign(command) - 1)
PackageMatch(command) ==
    /\ \A i \in DOMAIN command : command[i] # " "
    /\ PackageName(command) \notin {<<>>, <<"@">>}
    /\ VersionSigns(command) # {} => FirstSign(command) < Len(command)

\* the first client call of tool t
FirstRequest(t, p) ==
    CASE t = "searchPackages" ->
            Request("searchPackages", p.subject, <<>>, ValidatedLimit(p), Omitted)
      [] t = "analyzeNpxCommand" ->
            Request("getPackage", PackageName(p.subject), <<>>, Omitted, Omitted)
      [] OTHER -> Request("getPackage", p.subject, <<>>, Omitted, Omitted)

\* what a tool hands back: the JSON object it resolves with (success, error,
\* and how the download statistics are reported), or the exception it
\* rejects with
Output(kind, success, error, weekly, monthly) ==
    [kind |-> kind, success |-> success, error |-> error, weekly |-> weekly, monthly |-> monthly]
NoOutput == Output("none", FALSE, <<>>, "", "")
Success(weekly, monthly) == Output("json", TRUE, <<>>, weekly, monthly)
Failure(message) == Output("json", FALSE, message, "", "")
Exception(e) == Output("exception", FALSE, e.message, "", "")

ZodError == Err("ZodError", <<"invalid input">>)
InvalidFormatMsg == <<"Invalid package format.", "Use: package or package@version">>
NullDocumentMsg == <<"Cannot read properties of null">>
NpxNotFoundMsg(name) == <<"Package">> \o name \o <<"not found", "in npm registry">>

\* the catch block around the first client call: analyzeNpxCommand has its
\* own around client.getPackage, the other tools report error.message
FirstCallFailed(t, p, e) ==
    IF t = "analyzeNpxCommand" THEN Failure(NpxNotFoundMsg(PackageName(p.subject)))
    ELSE Failure(e.message)

\* mutant: a failure of the statistics fails the tool
StatsFailedFatal(t, weekly, e) == Failure(e.message)

\* the inner catch block around client.getDownloadStats: getPackageDetails
\* reports 'Not available', analyzeQuality keeps the zeros it started with
StatsFailed(t, weekly, e) ==
    IF t = "getPackageDetails" THEN Success("Not available", "")
    ELSE Success(weekly, "0")

\* no tool has been invoked
NoTool ==
    [name |-> "", params |-> Params(<<>>, Omitted), pc |-> "idle", call |-> 0,
     output |-> NoOutput]

(***************************************************************************)
(* Initial state: new RegistryClient(config)                               *)
(***************************************************************************)
Config(retries, size, ttl, concurrent) ==
    [maxRetries |-> retries, cacheMaxSize |-> size, cacheTTL |-> ttl,
     maxConcurrent |-> concurrent]

Constructor(cfg, n) ==
    /\ config = cfg
    /\ maxRetries = OrDefault(cfg.maxRetries, DefaultMaxRetries)
    /\ cache = [max |-> OrDefault(cfg.cacheMaxSize, DefaultCacheMaxSize),
                ttl |-> OrDefault(cfg.cacheTTL, DefaultCacheTTL),
                entries |-> <<>>]
    /\ limiter = [concurrency |-> OrDefault(cfg.maxConcurrent, DefaultMaxConcurrent),
                  activeCount |-> 0, queue |-> <<>>]
    /\ now = 0
    /\ pc = [c \in 1..n |-> "idle"]
    /\ url = [c \in 1..n |-> NoUrl]
    /\ attempt = [c \in 1..n |-> 0]
    /\ result = [c \in 1..n |-> Pending]
    /\ requests = [c \in 1..n |-> 0]
    /\ log = [c \in 1..n |-> <<>>]
    /\ delay = [c \in 1..n |-> Double(0, 0)]
    /\ request = [c \in 1..n |-> NoRequest]
    /\ stats = NoStats
    /\ tool = NoTool

(***************************************************************************)
(* Actions                                                                 *)
(***************************************************************************)
\* fetchWithCache up to its first suspension: the cache lookup, and on a
\* miss the hand-over to the limiter, which runs fetchWithRetry at once
\* when a slot is free and queues it otherwise
FetchWithCache(c, u) ==
    /\ pc[c] = "idle"
    /\ \A d \in Calls : d < c => pc[d] # "idle"    \* a new call takes the first free handle
    /\ url' = [url EXCEPT ![c] = u]
    /\ cache' = CacheTouch(cache, u, now)
    /\ LET cached == CacheGet(cache, u, now)
       IN  IF Truthy(cached)
           THEN /\ pc' = [pc EXCEPT ![c] = "resolved"]
                /\ result' = [result EXCEPT ![c] = Returned(cached)]
                /\ UNCHANGED <<limiter, requests>>
           ELSE IF HasFreeSlot(limiter)
           THEN /\ limiter' = [limiter EXCEPT !.activeCount = limiter.activeCount + 1]
                /\ pc' = [pc EXCEPT ![c] = "fetching"]
                /\ requests' = [requests EXCEPT ![c] = requests[c] + 1]
                /\ UNCHANGED result
           ELSE /\ limiter' = [limiter EXCEPT !.queue = Append(limiter.queue, c)]
                /\ pc' = [pc EXCEPT ![c] = "queued"]
                /\ UNCHANGED <<result, requests>>
    /\ UNCHANGED <<config, maxRetries, now, attempt, log, delay, stats>>

\* an operation is called with request r: it builds its URL and returns what
\* fetchWithCache returns
Call(c, r) ==
    /\ FetchWithCache(c, RequestUrl(r))
    /\ request' = [request EXCEPT ![c] = r]

\* the four operations, called directly on the client
GetPackage(c, name) ==
    Call(c, Request("getPackage", name, <<>>, Omitted, Omitted)) /\ UNCHANGED tool
GetPackageVersion(c, name, version) ==
    Call(c, Request("getPackageVersion", name, version, Omitted, Omitted)) /\ UNCHANGED tool
SearchPackages(c, query, limit, offset) ==
    Call(c, Request("searchPackages", query, <<>>, limit, offset)) /\ UNCHANGED tool
GetDownloadStats(c, name, period) ==
    Call(c, Request("getDownloadStats", name, <<period>>, Omitted, Omitted)) /\ UNCHANGED tool

\* mutant: the rejection is swallowed and execution falls through to cache.set
AfterLimiterSwallow(r) == "gotResult"

\* fetchWithCache after `await this.limiter(...)`: a value goes on to
\* cache.set, a rejection propagates to the caller
AfterLimiter(r) == IF r.tag = "return" THEN "gotResult" ELSE "rejected"

\* the transport answers the attempt in flight for call c with outcome o;
\* the frame returns, throws, or goes to sleep before the next attempt.
\* A frame that settles releases the slot, and the head of the queue starts.
\* random is the value of Math.random() drawn when the frame retries
RespondWith(c, o, random) ==
    /\ pc[c] = "fetching"
    /\ log' = [log EXCEPT ![c] = Append(log[c], o)]
    /\ LET r == FetchFrame(o, attempt[c], maxRetries)
           started == Dequeued(limiter)
       IN  IF r.tag = "retry"
           THEN /\ pc' = [pc EXCEPT ![c] = "sleeping"]
                /\ delay' = [delay EXCEPT ![c] = CalculateBackoff(attempt[c], random)]
                /\ limiter' = WhileSleeping(limiter)
                /\ UNCHANGED <<result, requests>>
           ELSE /\ pc' = [d \in Calls |->
                            IF d = c THEN AfterLimiter(r)
                            ELSE IF d \in started THEN "fetching" ELSE pc[d]]
                /\ result' = [result EXCEPT ![c] = r]
                /\ limiter' = Release(limiter)
                /\ requests' = [d \in Calls |->
                                  IF d \in started THEN requests[d] + 1 ELSE requests[d]]
                /\ UNCHANGED delay
    /\ UNCHANGED <<config, maxRetries, cache, now, url, attempt, request, stats, tool>>

\* the same with the smallest jitter, where the delays are not the subject
Respond(c, o) == RespondWith(c, o, Random(0, 0))

\* the backoff timer fires: the recursive frame issues the next attempt
SleepDone(c) ==
    /\ pc[c] = "sleeping"
    /\ pc' = [pc EXCEPT ![c] = "fetching"]
    /\ attempt' = [attempt EXCEPT ![c] = attempt[c] + 1]
    /\ requests' = [requests EXCEPT ![c] = requests[c] + 1]
    /\ UNCHANGED <<config, maxRetries, cache, limiter, now, url, result, log, delay, request,
                   stats, tool>>

\* fetchWithCache resumes with the limiter's result and stores it
CacheStore(c) ==
    /\ pc[c] = "gotResult"
    /\ cache' = CacheSet(cache, url[c], result[c].value, now)
    /\ pc' = [pc EXCEPT ![c] = "resolved"]
    /\ UNCHANGED <<config, maxRetries, limiter, now, url, attempt, result, requests, log,
                   delay, request, stats, tool>>

\* the code awaiting the settled call resumes; the handle is free again
Await(c) ==
    /\ pc[c] \in {"resolved", "rejected"}
    /\ pc' = [pc EXCEPT ![c] = "idle"]
    /\ url' = [url EXCEPT ![c] = NoUrl]
    /\ attempt' = [attempt EXCEPT ![c] = 0]
    /\ result' = [result EXCEPT ![c] = Pending]
    /\ requests' = [requests EXCEPT ![c] = 0]
    /\ log' = [log EXCEPT ![c] = <<>>]
    /\ delay' = [delay EXCEPT ![c] = Double(0, 0)]
    /\ request' = [request EXCEPT ![c] = NoRequest]
    /\ UNCHANGED <<config, maxRetries, cache, limiter, now, stats>>

\* a direct caller has consumed the settled call
Return(c) == Await(c) /\ UNCHANGED tool

ClearCache ==
    /\ cache.entries # <<>>
    /\ cache' = CacheClear(cache)
    /\ UNCHANGED <<config, maxRetries, limiter, now, pc, url, attempt, result, requests, log,
                   delay, request, stats, tool>>

\* clearCache() as one step of a caller that makes its calls one after the
\* other: the handle records that the step was taken
ClearCacheCall(c) ==
    /\ pc[c] = "idle"
    /\ \A d \in Calls : d < c => pc[d] # "idle"
    /\ cache' = CacheClear(cache)
    /\ pc' = [pc EXCEPT ![c] = "cleared"]
    /\ UNCHANGED <<config, maxRetries, limiter, now, url, attempt, result, requests, log,
                   delay, request, stats, tool>>

\* getCacheStats(): the caller receives {size, max}
CallGetCacheStats ==
    /\ stats' = GetCacheStats
    /\ UNCHANGED <<config, maxRetries, cache, limiter, now, pc, url, attempt, result,
                   requests, log, delay, request, tool>>

Tick ==
    /\ now < MaxTime
    /\ now' = now + 1
    /\ UNCHANGED <<config, maxRetries, cache, limiter, pc, url, attempt, result, requests, log,
                   delay, request, stats, tool>>

(***************************************************************************)
(* Actions of an analysis tool: the tool function from its call to its     *)
(* first await, and from each await to the next                            *)
(***************************************************************************)
clientVars ==
    <<config, maxRetries, cache, limiter, now, pc, url, attempt, result, requests, log,
      delay, request, stats>>

Settled(c) == pc[c] \in {"resolved", "rejected"}

\* the tool returns this output
Finish(output) ==
    /\ tool' = [tool EXCEPT !.pc = "done", !.output = output]
    /\ UNCHANGED clientVars

\* the tool calls a client operation with request r and awaits it
CallClient(r, position) ==
    \E c \in Calls :
        /\ Call(c, r)
        /\ tool' = [tool EXCEPT !.pc = position, !.call = c]

\* tool t is called with input p: the schema is parsed first, outside the
\* try block, then the first client operation is called
Invoke(t, p) ==
    /\ tool.pc = "idle"
    /\ IF ~Parses(t, p)
       THEN /\ tool' = [name |-> t, params |-> p, pc |-> "threw", call |-> 0,
                        output |-> Exception(ZodError)]
            /\ UNCHANGED clientVars
       ELSE IF t = "analyzeNpxCommand" /\ ~PackageMatch(p.subject)
       THEN /\ tool' = [name |-> t, params |-> p, pc |-> "done", call |-> 0,
                        output |-> Failure(InvalidFormatMsg)]
            /\ UNCHANGED clientVars
       ELSE \E c \in Calls :
                /\ Call(c, FirstRequest(t, p))
                /\ tool' = [name |-> t, params |-> p, pc |-> "awaitFirst", call |-> c,
                            output |-> NoOutput]

\* the first client call has settled: a rejection goes to the catch block, a
\* document is used; getPackageDetails and analyzeQuality go on to the
\* download statistics, auditSecurity to the advisory endpoint
AfterFirst ==
    /\ tool.pc = "awaitFirst"
    /\ Settled(tool.call)
    /\ LET r == result[tool.call]
       IN  IF r.tag = "throw" THEN Finish(FirstCallFailed(tool.name, tool.params, r.error))
           ELSE IF ~Truthy(r.value) THEN Finish(Failure(NullDocumentMsg))
           ELSE IF tool.name \in {"getPackageDetails", "analyzeQuality"}
           THEN CallClient(Request("getDownloadStats", tool.params.subject, <<"last-week">>,
                                   Omitted, Omitted), "awaitWeek")
           ELSE IF tool.name = "auditSecurity"
           THEN tool' = [tool EXCEPT !.pc = "awaitAdvisory"] /\ UNCHANGED clientVars
           ELSE Finish(Success("", ""))

\* getDownloadStats(name, 'last-week') has settled
AfterWeek ==
    /\ tool.pc = "awaitWeek"
    /\ Settled(tool.call)
    /\ LET r == result[tool.call]
       IN  IF r.tag = "throw" THEN Finish(StatsFailed(tool.name, "0", r.error))
           ELSE IF tool.name = "getPackageDetails"
           THEN Finish(Success(IF Truthy(r.value) THEN "available" ELSE "Not available", ""))
           ELSE IF IsNull(r.value)
           THEN Finish(StatsFailed(tool.name, "0", Err("TypeError", NullDocumentMsg)))
           ELSE CallClient(Request("getDownloadStats", tool.params.subject, <<"last-month">>,
                                   Omitted, Omitted), "awaitMonth")

\* analyzeQuality: getDownloadStats(name, 'last-month') has settled
AfterMonth ==
    /\ tool.pc = "awaitMonth"
    /\ Settled(tool.call)
    /\ LET r == result[tool.call]
       IN  IF r.tag = "throw" THEN Finish(StatsFailed(tool.name, "available", r.error))
           ELSE IF IsNull(r.value)
           THEN Finish(StatsFailed(tool.name, "available", Err("TypeError", NullDocumentMsg)))
           ELSE Finish(Success("available", "available"))

\* auditSecurity: the request to the advisory endpoint, made with fetch and
\* not through the client, has settled one way or the other
AfterAdvisory(ok) ==
    /\ tool.pc = "awaitAdvisory"
    /\ Finish(Success("", ""))

\* the caller has the output of the tool; the promises of its client calls
\* are gone
ToolReturn ==
    /\ tool.pc \in {"done", "threw"}
    /\ tool' = NoTool
    /\ pc' = [c \in Calls |-> "idle"]
    /\ url' = [c \in Calls |-> NoUrl]
    /\ attempt' = [c \in Calls |-> 0]
    /\ result' = [c \in Calls |-> Pending]
    /\ requests' = [c \in Calls |-> 0]
    /\ log' = [c \in Calls |-> <<>>]
    /\ delay' = [c \in Calls |-> Double(0, 0)]
    /\ request' = [c \in Calls |-> NoRequest]
    /\ UNCHANGED <<config, maxRetries, cache, limiter, now, stats>>

(***************************************************************************)
(* Inputs                                                                  *)
(***************************************************************************)
Lodash == <<"lodash">>
BabelCore == <<"@", "babel", "/", "core">>

Doc1 == Json("object", "doc1")
Doc2 == Json("object", "doc2")
Null == Json("null", "null")

\* the error bodies a registry may attach to a status >= 400
ErrorBodies ==
    { <<<<"Internal Server Error">>, <<"Database error">>>>,
      <<<<>>, <<"Database error">>>>,
      <<<<>>, <<>>>>,
      <<<<"upstream", "fetch failed">>, <<>>>>,
      <<NotFoundMsg, <<>>>>,
      <<RateLimitMsg, <<>>>> }

NetworkMessages ==
    { <<"fetch failed">>, <<"read", "ECONNRESET">>, <<"getaddrinfo", "ENOTFOUND">> }

\* every answer of the transport
AllOutcomes ==
    {Ok(b) : b \in {Doc1, Null}}
    \cup {Status(429, <<"Too Many Requests">>, <<>>), Status(404, <<"Not found">>, <<>>)}
    \cup {Status(500, b[1], b[2]) : b \in ErrorBodies}
    \cup {Malformed(502)}
    \cup {Aborted}
    \cup {NetworkError(m) : m \in NetworkMessages}

\* the answers used where the interleaving of calls is the subject
FewOutcomes ==
    {Ok(Doc1), Status(429, <<"Too Many Requests">>, <<>>)}

(***************************************************************************)
(* Specification of one sequential caller (each call awaited before the    *)
(* next is made) against every answer of the transport                     *)
(***************************************************************************)
SeqConfigs == {Config(r, 2, Omitted, Omitted) : r \in {Omitted, 1, 2}}

Init == \E cfg \in SeqConfigs : Constructor(cfg, 1)

Next ==
    \/ \E c \in Calls : GetPackage(c, BabelCore)
    \/ \E c \in Calls : GetPackageVersion(c, Lodash, <<"4.17.21">>)
    \/ \E c \in Calls : SearchPackages(c, <<"react">>, 5, Omitted)
    \/ \E c \in Calls : GetDownloadStats(c, Lodash, "last-week")
    \/ \E c \in Calls : \E o \in AllOutcomes : Respond(c, o)
    \/ \E c \in Calls : SleepDone(c)
    \/ \E c \in Calls : CacheStore(c)
    \/ \E c \in Calls : Return(c)
    \/ ClearCache

Spec == Init /\ [][Next]_vars

(***************************************************************************)
(* Specification of concurrent calls: several callers, a small limiter     *)
(***************************************************************************)
ConcConfigs == {Config(1, 2, Omitted, n) : n \in {1, 2}}

InitConc == \E cfg \in ConcConfigs : Constructor(cfg, ConcCalls)

NextConc ==
    \/ \E c \in Calls : GetPackage(c, Lodash)
    \/ \E c \in Calls : GetDownloadStats(c, Lodash, "last-week")
    \/ \E c \in Calls : \E o \in FewOutcomes : Respond(c, o)
    \/ \E c \in Calls : SleepDone(c)
    \/ \E c \in Calls : CacheStore(c)
    \/ \E c \in Calls : Return(c)
    \/ ClearCache

SpecConc == InitConc /\ [][NextConc]_vars

(***************************************************************************)
(* Specification of two calls of the same operation with the same          *)
(* parameters, made one after the other or concurrently, with a clock      *)
(***************************************************************************)
PairConfigs == {Config(1, 1, 1, Omitted)}

PairOutcomes ==
    {Ok(Doc1), Ok(Doc2), Ok(Null),
     Status(429, <<"Too Many Requests">>, <<>>), Status(404, <<"Not found">>, <<>>)}

InitPair == \E cfg \in PairConfigs : Constructor(cfg, 2)

NextPair ==
    \/ \E c \in Calls : GetPackage(c, Lodash)
    \/ \E c \in Calls : \E o \in PairOutcomes : Respond(c, o)
    \/ \E c \in Calls : SleepDone(c)
    \/ \E c \in Calls : CacheStore(c)
    \/ ClearCache
    \/ Tick

SpecPair == InitPair /\ [][NextPair]_vars

(***************************************************************************)
(* Specification of a run of calls of one operation with the same          *)
(* parameters, each awaited before the next is made, with a clock          *)
(***************************************************************************)
\* every call made before call c has settled
Awaited(c) == \A d \in Calls : d < c => pc[d] \in {"resolved", "rejected", "cleared"}

TTLConfigs == {Config(1, 2, 1, Omitted)}

InitTTL == \E cfg \in TTLConfigs : Constructor(cfg, TTLCalls)

NextTTL ==
    \/ \E c \in Calls : Awaited(c) /\ GetPackage(c, Lodash)
    \/ \E c \in Calls : \E o \in PairOutcomes : Respond(c, o)
    \/ \E c \in Calls : SleepDone(c)
    \/ \E c \in Calls : CacheStore(c)
    \/ Tick

SpecTTL == InitTTL /\ [][NextTTL]_vars

(***************************************************************************)
(* Specification of a run of awaited calls over more URLs than the cache   *)
(* has room for                                                            *)
(***************************************************************************)
LRUConfigs == {Config(1, 2, Omitted, Omitted)}

LRUOutcomes == {Ok(Doc1), Ok(Doc2), Status(404, <<"Not found">>, <<>>)}

InitLRU == \E cfg \in LRUConfigs : Constructor(cfg, LRUCalls)

NextLRU ==
    \/ \E c \in Calls : Awaited(c) /\ GetPackage(c, Lodash)
    \/ \E c \in Calls : Awaited(c) /\ GetPackage(c, BabelCore)
    \/ \E c \in Calls : Awaited(c) /\ GetDownloadStats(c, Lodash, "last-week")
    \/ \E c \in Calls : \E o \in LRUOutcomes : Respond(c, o)
    \/ \E c \in Calls : CacheStore(c)
    \/ \E c \in Calls : Awaited(c) /\ ClearCacheCall(c)
    \/ CallGetCacheStats

SpecLRU == InitLRU /\ [][NextLRU]_vars

(***************************************************************************)
(* Specification of concurrent calls against one answer of every kind, and *)
(* of concurrent calls of one operation under fair scheduling              *)
(***************************************************************************)
SlotConfigs == {Config(1, 1, Omitted, n) : n \in {1, 2}}

\* one answer of every kind the transport can give
SlotOutcomes ==
    {Ok(Doc1),
     Status(429, <<"Too Many Requests">>, <<>>),
     Status(404, <<"Not found">>, <<>>),
     Status(500, <<"Internal Server Error">>, <<"Database error">>),
     Malformed(502),
     Aborted,
     NetworkError(<<"fetch failed">>),
     NetworkError(<<"getaddrinfo", "ENOTFOUND">>)}

InitSlots == \E cfg \in SlotConfigs : Constructor(cfg, SlotCalls)

NextSlots ==
    \/ \E c \in Calls : GetPackage(c, Lodash)
    \/ \E c \in Calls : GetDownloadStats(c, Lodash, "last-week")
    \/ \E c \in Calls : \E o \in SlotOutcomes : Respond(c, o)
    \/ \E c \in Calls : SleepDone(c)
    \/ \E c \in Calls : CacheStore(c)
    \/ \E c \in Calls : Return(c)

SpecSlots == InitSlots /\ [][NextSlots]_vars

NextSettle ==
    \/ \E c \in Calls : GetPackage(c, Lodash)
    \/ \E c \in Calls : \E o \in SlotOutcomes : Respond(c, o)
    \/ \E c \in Calls : SleepDone(c)
    \/ \E c \in Calls : CacheStore(c)
    \/ \E c \in Calls : Return(c)

\* every network attempt is eventually answered (fetch settles, by the abort
\* timer at the latest), every backoff timer eventually fires, and a
\* continuation that is ready to run is run by the event loop
FairSettle ==
    \A c \in 1..SlotCalls :
        /\ WF_vars(\E o \in SlotOutcomes : Respond(c, o))
        /\ WF_vars(SleepDone(c))
        /\ WF_vars(CacheStore(c))

SpecSettle == InitSlots /\ [][NextSettle]_vars /\ FairSettle

(***************************************************************************)
(* Specification of one sequential caller whose retries draw their jitter  *)
(***************************************************************************)
BackoffConfigs == {Config(r, 1, Omitted, Omitted) : r \in {Omitted, 2}}

BackoffOutcomes ==
    {Ok(Doc1), Status(429, <<"Too Many Requests">>, <<>>), NetworkError(<<"read", "ECONNRESET">>)}

\* values of Math.random(): 0, 1/2, and values at and near the largest
Randoms == {Random(0, 0), Random(500, 0), Random(1000, 1), Random(1000, 2), Random(1000, 40)}

InitBackoff == \E cfg \in BackoffConfigs : Constructor(cfg, 1)

NextBackoff ==
    \/ \E c \in Calls : GetPackage(c, Lodash)
    \/ \E c \in Calls : \E o \in BackoffOutcomes : \E r \in Randoms : RespondWith(c, o, r)
    \/ \E c \in Calls : SleepDone(c)
    \/ \E c \in Calls : CacheStore(c)
    \/ \E c \in Calls : Return(c)

SpecBackoff == InitBackoff /\ [][NextBackoff]_vars

(***************************************************************************)
(* Specification of concurrent calls whose attempts meet transient         *)
(* failures of both kinds, on clients built with and without retries       *)
(***************************************************************************)
BudgetConfigs == {Config(r, Omitted, Omitted, Omitted) : r \in {0, 2}}

InitBudget == \E cfg \in BudgetConfigs : Constructor(cfg, SlotCalls)

NextBudget ==
    \/ \E c \in Calls : GetPackage(c, Lodash)
    \/ \E c \in Calls : \E o \in BackoffOutcomes : Respond(c, o)
    \/ \E c \in Calls : SleepDone(c)
    \/ \E c \in Calls : CacheStore(c)

SpecBudget == InitBudget /\ [][NextBudget]_vars

(***************************************************************************)
(* Specification of concurrent calls with clearCache() called among them   *)
(***************************************************************************)
InitClear == \E cfg \in LRUConfigs : Constructor(cfg, ConcCalls)

NextClear ==
    \/ \E c \in Calls : GetPackage(c, Lodash)
    \/ \E c \in Calls : GetPackage(c, BabelCore)
    \/ \E c \in Calls : \E o \in LRUOutcomes : Respond(c, o)
    \/ \E c \in Calls : CacheStore(c)
    \/ \E c \in Calls : ClearCacheCall(c)

SpecClear == InitClear /\ [][NextClear]_vars

(***************************************************************************)
(* Specification of a run of awaited calls of the four operations whose    *)
(* arguments differ in the ways the request URL can and cannot tell apart  *)
(***************************************************************************)
React == <<"react">>

\* a version string that spells the path and the query of a search
SearchVersion ==
    <<"v1", "/", "search", "?", "text", "=", "react", "&", "size", "=", "20", "&", "from", "=", "0">>

KeyConfigs == {Config(1, Omitted, Omitted, Omitted)}

KeyOutcomes == {Ok(EmptySearch), Ok(Doc1), Status(429, <<"Too Many Requests">>, <<>>)}

\* the options of a search: limit and offset, each given or left out
SearchOptions ==
    {<<Omitted, Omitted>>, <<20, Omitted>>, <<0, Omitted>>, <<5, Omitted>>,
     <<Omitted, 0>>, <<Omitted, 10>>}

InitKeys == \E cfg \in KeyConfigs : Constructor(cfg, KeyCalls)

NextKeys ==
    \/ \E c \in Calls : Awaited(c) /\ GetPackage(c, React)
    \/ \E c \in Calls : Awaited(c) /\ GetPackageVersion(c, React, <<"18.2.0">>)
    \/ \E c \in Calls : Awaited(c) /\ GetPackageVersion(c, <<"-">>, SearchVersion)
    \/ \E c \in Calls : \E options \in SearchOptions :
            Awaited(c) /\ SearchPackages(c, React, options[1], options[2])
    \/ \E c \in Calls : Awaited(c) /\ GetDownloadStats(c, React, "last-week")
    \/ \E c \in Calls : \E o \in KeyOutcomes : Respond(c, o)
    \/ \E c \in Calls : SleepDone(c)
    \/ \E c \in Calls : CacheStore(c)

SpecKeys == InitKeys /\ [][NextKeys]_vars

(***************************************************************************)
(* Specification of the analysis tools, called one after the other on one  *)
(* client                                                                  *)
(***************************************************************************)
\* the client calls one tool invocation makes at most (analyzeQuality)
ToolCalls == 3

ToolConfigs == {Config(1, 2, Omitted, Omitted)}

ToolParams ==
    {Params(Lodash, Omitted), Params(Lodash, 50), Params(Lodash, 51), Params(Lodash, 0),
     Params(<<>>, Omitted), Params(<<"lodash", " ", "--help">>, Omitted)}

ToolOutcomes ==
    {Ok(Doc1), Ok(Null),
     Status(404, <<"Not found">>, <<>>),
     Status(429, <<"Too Many Requests">>, <<>>),
     Status(500, <<"Internal Server Error">>, <<>>),
     Aborted,
     NetworkError(<<"fetch failed">>)}

InitTools == \E cfg \in ToolConfigs : Constructor(cfg, ToolCalls)

NextTools ==
    \/ \E t \in ToolNames : \E p \in ToolParams : Invoke(t, p)
    \/ AfterFirst
    \/ AfterWeek
    \/ AfterMonth
    \/ \E ok \in BOOLEAN : AfterAdvisory(ok)
    \/ ToolReturn
    \/ \E c \in Calls : \E o \in ToolOutcomes : Respond(c, o)
    \/ \E c \in Calls : SleepDone(c)
    \/ \E c \in Calls : CacheStore(c)

SpecTools == InitTools /\ [][NextTools]_vars

(***************************************************************************)
(* Properties                                                              *)
(***************************************************************************)
Last(seq) == seq[Len(seq)]
InFlight == {c \in Calls : pc[c] = "fetching"}
Is(o, status) == o.kind = "response" /\ o.status = status
NotFoundError == Err("Error", NotFoundMsg)
RateLimitError == Err("Error", RateLimitMsg)

\* C1: with max-concurrency N configured, the number of network attempts in
\* flight at the same time is at most N, whatever mix of operations is called
\* by however many concurrent callers.
C1_ConcurrencyBound ==
    config.maxConcurrent >= 1 => Cardinality(InFlight) <= config.maxConcurrent

\* more calls than slots: N attempts in flight and a further call waiting
C1_Witness ==
    /\ Cardinality(InFlight) = config.maxConcurrent
    /\ limiter.queue # <<>>
    /\ \E c, d \in Calls : pc[c] = "fetching" /\ pc[d] = "queued" /\ url[c] # url[d]

\* C2 as stated: two calls of the same operation with the same parameters
\* within the TTL window issue at most one network request between them, and
\* when both have resolved their results are identical.
C2_AtMostOneRequest ==
    (url[1] # NoUrl /\ url[2] = url[1] /\ now <= cache.ttl) =>
        /\ requests[1] + requests[2] <= 1
        /\ (pc[1] = "resolved" /\ pc[2] = "resolved") => result[2] = result[1]

\* the entry for key k is in the cache and has not expired
IsLive(k) ==
    /\ k \in Keys(cache.entries)
    /\ now - cache.entries[IndexOf(cache.entries, k)].start <= cache.ttl

\* C2 amended: when the first call has resolved with a truthy body and its
\* entry is still in the cache and unexpired at the moment the second call is
\* made, the second call issues no network request and resolves at once with
\* a result identical to the first call's.
C2_SecondCallServedFromCache ==
    [][(/\ pc[1] = "resolved" /\ result[1].value.type = "object"
        /\ pc[2] = "idle" /\ pc'[2] # "idle" /\ url'[2] = url[1]
        /\ IsLive(url[1]))
       => (/\ pc'[2] = "resolved"
           /\ result'[2] = result[1]
           /\ requests'[2] = 0
           /\ limiter' = limiter)]_vars

\* the second call was served from an entry one tick old, after the first
\* call had needed a retry to obtain the body
C2_Witness ==
    /\ pc[1] = "resolved" /\ requests[1] = 2
    /\ pc[2] = "resolved" /\ requests[2] = 0
    /\ result[2] = result[1] /\ result[1].value = Doc2
    /\ IsLive(url[1]) /\ now - cache.entries[1].start = 1

C4_TimeoutIsRetried ==
    [][\A c \in Calls :
          (/\ pc[c] = "fetching"
           /\ log'[c] = Append(log[c], Aborted)
           /\ attempt[c] < maxRetries)
          => pc'[c] = "sleeping"]_vars

\* every attempt the call has made so far was answered 429
Only429(c) == log[c] # <<>> /\ \A i \in DOMAIN log[c] : Is(log[c][i], 429)

\* C5: a call whose every attempt is answered 429 performs exactly
\* maxRetries + 1 network attempts (4 with the default) and then rejects with
\* the rate-limit error: never more attempts, never an earlier rejection.
C5_RateLimitExhaustion ==
    \A c \in Calls :
        Only429(c) =>
            /\ requests[c] <= maxRetries + 1
            /\ Len(log[c]) < maxRetries + 1 => pc[c] \in {"sleeping", "fetching"}
            /\ Len(log[c]) = maxRetries + 1 =>
                  /\ pc[c] = "rejected"
                  /\ result[c] = Thrown(RateLimitError)
                  /\ requests[c] = maxRetries + 1
            /\ (config.maxRetries = Omitted /\ pc[c] = "rejected") => requests[c] = 4

\* with the default configuration, four attempts answered 429 and a rejection
C5_Witness ==
    \E c \in Calls :
        /\ config.maxRetries = Omitted
        /\ Only429(c) /\ Len(log[c]) = 4
        /\ pc[c] = "rejected" /\ result[c].error = RateLimitError

\* the first attempt was answered 429 and the second 200 with a body
RecoveredAfter429(c) == Len(log[c]) = 2 /\ Is(log[c][1], 429) /\ Is(log[c][2], 200)

\* C6: a 429 on the first attempt and a 200 with a body on the second make the
\* call succeed with that body after exactly 2 network attempts, and storing
\* the result puts that body in the cache under the request URL.
C6_RecoveryAfterRateLimit ==
    /\ [](\A c \in Calls :
            RecoveredAfter429(c) =>
                /\ pc[c] \in {"gotResult", "resolved"}
                /\ result[c] = Returned(log[c][2].body)
                /\ requests[c] = 2)
    /\ [][\A c \in Calls :
            (RecoveredAfter429(c) /\ pc[c] = "gotResult" /\ pc'[c] = "resolved") =>
                /\ url[c] \in Keys(cache'.entries)
                /\ Content(cache')[url[c]] = log[c][2].body]_vars

C6_Witness ==
    \E c \in Calls :
        /\ RecoveredAfter429(c) /\ pc[c] = "resolved" /\ result[c].value = Doc1
        /\ CacheGet(cache, url[c], now) = Doc1

\* C7: a 404 on any attempt ends the call at once with the not-found error:
\* no sleep and no further attempt follows, whatever budget remains.
C7_NotFoundIsTerminal ==
    \A c \in Calls :
        (log[c] # <<>> /\ Is(Last(log[c]), 404)) =>
            /\ pc[c] = "rejected"
            /\ result[c] = Thrown(NotFoundError)
            /\ requests[c] = Len(log[c])

\* a 404 on a second attempt, with retries left in the budget
C7_Witness ==
    \E c \in Calls :
        /\ Len(log[c]) = 2 /\ Is(log[c][2], 404) /\ Is(log[c][1], 429)
        /\ attempt[c] < maxRetries /\ pc[c] = "rejected"

\* C8: a response with a status >= 400 other than 429 and 404 is terminal
\* whatever its error body: the call rejects after that attempt, no retry.
C8_OtherStatusIsTerminal ==
    \A c \in Calls :
        (/\ log[c] # <<>>
         /\ Last(log[c]).kind = "response"
         /\ Last(log[c]).status >= 400
         /\ Last(log[c]).status \notin {429, 404})
        => (pc[c] = "rejected" /\ requests[c] = Len(log[c]))

\* C9: the error a call rejects with after a 500 response can be told from
\* the not-found error and from the rate-limit error, whatever the error body.
C9_ServerErrorDistinguishable ==
    \A c \in Calls :
        (pc[c] = "rejected" /\ Is(Last(log[c]), 500)) =>
            result[c].error \notin {NotFoundError, RateLimitError}

\* C10: a call whose URL has a (truthy, unexpired) entry in the cache resolves
\* at once with the stored value: it takes no slot, joins no queue, makes no
\* network attempt and no backoff, also while every slot is held and other
\* calls wait for one.
C10_HitBypassesLimiter ==
    [][\A c \in Calls :
          (/\ pc[c] = "idle" /\ pc'[c] # "idle"
           /\ IsLive(url'[c])
           /\ Content(cache)[url'[c]].type = "object")
          => (/\ pc'[c] = "resolved"
              /\ result'[c] = Returned(Content(cache)[url'[c]])
              /\ limiter' = limiter
              /\ requests' = requests /\ attempt' = attempt /\ log' = log
              /\ \A d \in Calls \ {c} : pc'[d] = pc[d])]_vars

\* a call served from the cache without a single network attempt, while the
\* only slot is held by the first caller and the second caller is queued
C10_Witness ==
    /\ limiter.concurrency = 1 /\ limiter.activeCount = 1
    /\ pc[1] \in {"fetching", "sleeping"} /\ limiter.queue = <<2>>
    /\ pc[3] = "resolved" /\ requests[3] = 0 /\ result[3].value = Doc1
    /\ url[3] \notin {url[1], url[2]}

\* the step by which call c is made (fetchWithCache runs up to its first await)
Made(c) == pc[c] = "idle" /\ pc'[c] # "idle"

\* the age at time t of the entry stored under key k
Age(c, k, t) == t - c.entries[IndexOf(c.entries, k)].start

\* C11 as stated: an entry inserted at time t is never served for a call made
\* at or after t + TTL; such a call issues a new network request.
C11_NeverServedAtOrAfterTTL ==
    [][\A c \in Calls :
          (/\ Made(c)
           /\ url'[c] \in Keys(cache.entries)
           /\ Age(cache, url'[c], now) >= cache.ttl)
          => (pc'[c] = "fetching" /\ requests'[c] = 1)]_vars

\* C11 amended: an entry inserted at time t is never served for a call made
\* strictly after t + TTL (at exactly t + TTL it is still served): such a call
\* deletes the entry and issues a new network request; and a call that is
\* served from the cache leaves the insertion time of the entry as it was, so
\* reads do not extend its lifetime.
C11_NeverServedAfterTTL ==
    [][\A c \in Calls :
          (Made(c) /\ url'[c] \in Keys(cache.entries)) =>
             /\ Age(cache, url'[c], now) > cache.ttl =>
                   /\ pc'[c] = "fetching" /\ requests'[c] = 1
                   /\ result'[c] = Pending
                   /\ url'[c] \notin Keys(cache'.entries)
             /\ pc'[c] = "resolved" =>
                   /\ Age(cache, url'[c], now) <= cache.ttl
                   /\ url'[c] \in Keys(cache'.entries)
                   /\ Age(cache', url'[c], now) = Age(cache, url'[c], now)]_vars

\* the entry was inserted at tick 0 by the first call, read by the second
\* call within its lifetime, and the third call, made at tick 2 with a
\* time-to-live of 1, has a network attempt in flight
C11_Witness ==
    /\ cache.ttl = 1 /\ now = 2
    /\ pc[1] = "resolved" /\ requests[1] >= 1 /\ result[1].value = Doc1
    /\ pc[2] = "resolved" /\ requests[2] = 0 /\ result[2] = result[1]
    /\ pc[3] = "fetching" /\ requests[3] = 1 /\ log[3] = <<>>
    /\ url[3] = url[1] /\ url[2] = url[1]

\* the step by which call c stores the value it fetched (cache.set)
Stored(c) == pc[c] = "gotResult" /\ pc'[c] = "resolved"

\* C12: every use of a key, a cache hit as well as an insertion, makes it the
\* most recently used entry; a fetched value stored under a new key while the
\* cache is full evicts exactly the least recently used entry, the others
\* keeping their order, and nothing is evicted while there is room; hence the
\* entry count never exceeds the configured capacity.
C12_LeastRecentlyUsedEvicted ==
    /\ [](Len(cache.entries) <= cache.max)
    /\ [][\A c \in Calls :
            /\ (Made(c) /\ pc'[c] = "resolved") =>
                  /\ Last(cache'.entries).key = url'[c]
                  /\ cache'.entries = Append(Without(cache.entries, url'[c]), Last(cache'.entries))
            /\ Stored(c) =>
                  /\ Last(cache'.entries) = Entry(url[c], result[c].value, now)
                  /\ cache'.entries =
                        Append(IF url[c] \in Keys(cache.entries) THEN Without(cache.entries, url[c])
                               ELSE IF Len(cache.entries) = cache.max THEN Tail(cache.entries)
                               ELSE cache.entries,
                               Last(cache'.entries))]_vars

\* capacity 2: the first URL is fetched, the second is fetched, the first is
\* read again from the cache, and the fetch of a third URL then evicts the
\* second, not the first
C12_Witness ==
    /\ cache.max = 2
    /\ \A c \in 1..4 : pc[c] = "resolved"
    /\ requests[1] = 1 /\ requests[2] = 1 /\ requests[3] = 0 /\ requests[4] = 1
    /\ url[3] = url[1] /\ url[2] # url[1] /\ url[4] \notin {url[1], url[2]}
    /\ [i \in 1..Len(cache.entries) |-> cache.entries[i].key] = <<url[1], url[4]>>

\* the calls made so far
MadeCalls == {c \in Calls : pc[c] # "idle"}

\* so far the caller has made N successful fetches of N distinct URLs, with
\* N within the capacity, and nothing else
FreshFetches ==
    /\ \A c \in MadeCalls : pc[c] = "resolved" /\ requests[c] = 1
    /\ \A c, d \in MadeCalls : c # d => url[c] # url[d]
    /\ Cardinality(MadeCalls) <= cache.max

\* C13: right after clearCache() the size reported by getCacheStats() is 0;
\* after N awaited successful fetches of N distinct URLs on a fresh client
\* (N within the capacity, inside the TTL) it is N; and getCacheStats()
\* returns {size, max} of the cache and leaves the entries, their values and
\* their recency order as they were.
C13_CacheStats ==
    /\ [][\A c \in Calls :
            (pc[c] = "idle" /\ pc'[c] = "cleared") => GetCacheStats'.size = 0]_vars
    /\ [](FreshFetches => GetCacheStats.size = Cardinality(MadeCalls))
    /\ [][stats' # stats =>
            /\ stats' = [size |-> Len(cache.entries), max |-> cache.max]
            /\ cache' = cache]_vars

\* getCacheStats() reported 2 of 2 after two fetches of different URLs, and
\* the clearCache() that followed left the cache empty
C13_Witness ==
    /\ pc[1] = "resolved" /\ pc[2] = "resolved" /\ url[1] # url[2]
    /\ requests[1] = 1 /\ requests[2] = 1
    /\ stats = [size |-> 2, max |-> 2]
    /\ pc[3] = "cleared" /\ cache.entries = <<>> /\ GetCacheStats.size = 0

\* the calls that hold a slot: in an attempt or in a backoff sleep
Holding == {c \in Calls : pc[c] \in {"fetching", "sleeping"}}
\* the calls that wait for a slot
Waiting == {c \in Calls : pc[c] = "queued"}

\* C14: the slot a call acquired is released by the step that settles its
\* fetch, with a value or with an error of any kind: the slots held are
\* exactly those of the calls in an attempt or in a backoff sleep, the queue
\* holds exactly the calls waiting, and once no call is outstanding zero slots
\* are held and no call is waiting.
C14_SlotReleasedOnSettle ==
    /\ [](/\ limiter.activeCount = Cardinality(Holding)
          /\ {limiter.queue[i] : i \in DOMAIN limiter.queue} = Waiting
          /\ Len(limiter.queue) = Cardinality(Waiting)
          /\ (Holding = {} /\ Waiting = {}) =>
                (limiter.activeCount = 0 /\ limiter.queue = <<>>))
    /\ [][\A c \in Calls :
            (pc[c] = "fetching" /\ pc'[c] \in {"gotResult", "rejected"}) =>
                \/ limiter.queue = <<>> /\ limiter'.activeCount = limiter.activeCount - 1
                \/ /\ limiter.queue # <<>> /\ limiter'.activeCount = limiter.activeCount
                   /\ limiter'.queue = Tail(limiter.queue)
                   /\ pc'[Head(limiter.queue)] = "fetching"]_vars

\* with one slot: the holder was rejected with the timeout error, its slot
\* went to the call that had been waiting, which resolved; nothing is held now
C14_Witness ==
    /\ limiter.concurrency = 1 /\ limiter.activeCount = 0 /\ limiter.queue = <<>>
    /\ pc[1] = "rejected" /\ result[1].error.message = TimeoutMsg
    /\ pc[2] = "resolved" /\ requests[2] = 1

\* the calls that have been made and have not settled
Outstanding == {c \in Calls : pc[c] \in {"queued", "fetching", "sleeping", "gotResult"}}

\* C15: every call eventually settles, resolved with the parsed document or
\* rejected with an error, given that every network attempt is eventually
\* answered, every backoff timer eventually fires and ready continuations
\* run: a call waiting for a slot is eventually started, and the failure of an
\* attempt is followed by a retry or by the rejection of the call.
C15_EveryCallSettles ==
    /\ \A c \in 1..SlotCalls :
          (c \in Outstanding) ~>
              \/ pc[c] = "resolved" /\ result[c].tag = "return"
              \/ pc[c] = "rejected" /\ result[c].tag = "throw" /\ result[c].error # NoError
    /\ \A c \in 1..SlotCalls : (pc[c] = "queued") ~> (pc[c] = "fetching")
    /\ [][\A c \in Calls :
            (pc[c] = "fetching" /\ Len(log'[c]) > Len(log[c]) /\ ~Is(Last(log'[c]), 200)) =>
                \/ pc'[c] = "sleeping"
                \/ pc'[c] = "rejected" /\ result'[c].tag = "throw"]_vars

\* with one slot: the first call was rejected after a retry, and the second,
\* which had to wait for the slot meanwhile, has resolved with the document
C15_Witness ==
    /\ limiter.concurrency = 1
    /\ pc[1] = "rejected" /\ requests[1] = 2 /\ result[1].error = RateLimitError
    /\ pc[2] = "resolved" /\ requests[2] = 1 /\ result[2] = Returned(Doc1)

\* call c was rejected on the attempt that used up its retry budget
Exhausted(c) == pc[c] = "rejected" /\ attempt[c] = maxRetries /\ Len(log[c]) = maxRetries + 1

\* C16: a call rejected with its retry budget used up surfaces the error of
\* its last attempt, whatever the earlier attempts met: the rate-limit error
\* when the last attempt was answered 429, the transport error itself when the
\* last attempt failed at transport level, the timeout error when it timed out.
C16_LastFailureSurfaces ==
    \A c \in Calls :
        Exhausted(c) =>
            /\ Is(Last(log[c]), 429) => result[c] = Thrown(RateLimitError)
            /\ Last(log[c]).kind = "neterr" =>
                  result[c] = Thrown(Err("TypeError", Last(log[c]).message))
            /\ Last(log[c]).kind = "abort" => result[c] = Thrown(Err("Error", TimeoutMsg))

\* default budget: 429, 429, 429, then a connection reset; the call is
\* rejected with the connection-reset error, not with the rate-limit error
C16_Witness ==
    \E c \in Calls :
        /\ config.maxRetries = Omitted /\ Exhausted(c) /\ Len(log[c]) = 4
        /\ \A i \in 1..3 : Is(log[c][i], 429)
        /\ log[c][4] = NetworkError(<<"read", "ECONNRESET">>)
        /\ result[c].error = Err("TypeError", <<"read", "ECONNRESET">>)
        /\ result[c].error # RateLimitError

\* comparison of a double with a whole number of milliseconds
AtLeast(x, ms) == x.ms > ms \/ (x.ms = ms /\ x.below = 0)
Below(x, ms) == x.ms < ms \/ (x.ms = ms /\ x.below > 0)
AtMost(x, ms) == x.ms <= ms

\* C17 as stated: the delay slept after attempt k (1-indexed) of a call is at
\* least baseDelay * 2^(k-1) and strictly less than baseDelay * 2^(k-1) + 1000
\* milliseconds, with baseDelay = 1000, whether a 429 or a network error
\* caused the retry.
C17_BackoffStrictlyBelow ==
    \A c \in Calls :
        pc[c] = "sleeping" =>
            /\ AtLeast(delay[c], 1000 * 2^(requests[c] - 1))
            /\ Below(delay[c], 1000 * 2^(requests[c] - 1) + 1000)

\* C17 amended: the delay slept after attempt k is at least
\* baseDelay * 2^(k-1) and at most baseDelay * 2^(k-1) + 1000 milliseconds;
\* the upper limit itself is reached only by the rounding of the sum, when
\* Math.random() is within 2^k units of 2^-53 of 1.
C17_BackoffWithin ==
    \A c \in Calls :
        pc[c] = "sleeping" =>
            /\ AtLeast(delay[c], 1000 * 2^(requests[c] - 1))
            /\ AtMost(delay[c], 1000 * 2^(requests[c] - 1) + 1000)
            /\ ~Below(delay[c], 1000 * 2^(requests[c] - 1) + 1000) =>
                  \E r \in Randoms : /\ r.thousandths = 1000 /\ r.below <= 2^requests[c]
                                      /\ delay[c] = CalculateBackoff(requests[c] - 1, r)

\* the third attempt of a call met a connection reset after two 429
\* responses, and the call sleeps 4500 ms before its fourth attempt
C17_Witness ==
    \E c \in Calls :
        /\ pc[c] = "sleeping" /\ requests[c] = 3
        /\ Is(log[c][1], 429) /\ Is(log[c][2], 429) /\ log[c][3].kind = "neterr"
        /\ delay[c] = Double(4500, 0)

\* the input fails the schema of the tool: an empty package name, query or
\* command, or a search limit outside 1..50
FailsSchema(t, p) ==
    \/ p.subject = <<>>
    \/ t = "searchPackages" /\ p.limit # Omitted /\ p.limit \notin 1..50

\* C18: each of the eight analysis tools rejects an input that fails its
\* schema before it calls any operation of the client: the step that invokes
\* the tool with such an input ends it with the validation error and leaves
\* the client, its cache, its limiter and the request counters untouched.
C18_InvalidInputRejectedFirst ==
    /\ [][(tool.pc = "idle" /\ tool'.pc # "idle" /\ FailsSchema(tool'.name, tool'.params)) =>
            /\ tool'.name \in ToolNames
            /\ tool'.pc = "threw"
            /\ tool'.output = Exception(ZodError)
            /\ UNCHANGED clientVars]_vars
    /\ [](tool.pc = "threw" =>
            \A c \in Calls : pc[c] = "idle" /\ requests[c] = 0 /\ url[c] = NoUrl)

\* the search tool has thrown on limit 51, on a client whose cache holds an
\* entry of an earlier tool run
C18_Witness ==
    /\ tool.pc = "threw" /\ tool.name = "searchPackages"
    /\ tool.params = Params(Lodash, 51)
    /\ cache.entries # <<>>
    /\ \A c \in Calls : pc[c] = "idle" /\ requests[c] = 0

\* C19: for valid input, an error with which the first client call of a tool
\* is rejected (not found, rate limit, server, timeout, network) does not
\* escape as an exception: the tool resolves with success = false and error
\* equal to the message of that error, and after a 404 that message contains
\* the marker 'not found'.
C19_AccessErrorReported ==
    (tool.pc = "done" /\ tool.call = 1 /\ pc[1] = "rejected") =>
        /\ tool.output.kind = "json"
        /\ tool.output.success = FALSE
        /\ tool.output.error = result[1].error.message
        /\ Is(Last(log[1]), 404) => Includes(tool.output.error, "not found")

\* C20: when getPackage has succeeded and getDownloadStats is then rejected
\* with any error, getPackageDetails and analyzeQuality still return
\* success = true, with the statistics reported as 'Not available'
\* (getPackageDetails) or as zero (analyzeQuality); the rejection leaves the
\* cache as it was, and the metadata entry is still there with the document.
C20_StatsFailureTolerated ==
    /\ [](( /\ tool.name \in {"getPackageDetails", "analyzeQuality"}
            /\ tool.pc = "done" /\ tool.call >= 2 /\ pc[tool.call] = "rejected") =>
            /\ tool.output.kind = "json" /\ tool.output.success = TRUE
            /\ tool.name = "getPackageDetails" => tool.output.weekly = "Not available"
            /\ tool.name = "analyzeQuality" =>
                  /\ tool.output.monthly = "0"
                  /\ tool.call = 2 => tool.output.weekly = "0"
            /\ pc[1] = "resolved"
            /\ url[1] \in Keys(cache.entries)
            /\ Content(cache)[url[1]] = result[1].value)
    /\ [][(/\ tool.pc \in {"awaitWeek", "awaitMonth"}
           /\ pc[tool.call] # "rejected" /\ pc'[tool.call] = "rejected") =>
            cache' = cache]_vars

\* analyzeQuality returned success with the weekly downloads and zero
\* monthly downloads after the request for the monthly statistics timed out
C20_Witness ==
    /\ tool.name = "analyzeQuality" /\ tool.pc = "done" /\ tool.call = 3
    /\ pc[3] = "rejected" /\ result[3].error.message = TimeoutMsg
    /\ tool.output.success = TRUE
    /\ tool.output.weekly = "available" /\ tool.output.monthly = "0"
    /\ url[1] \in Keys(cache.entries)

\* call c has been made as a search and its last attempt was answered 200
\* with the empty result list
EmptyMatch(c) ==
    request[c].op = "searchPackages" /\ log[c] # <<>> /\ Last(log[c]) = Ok(EmptySearch)

\* C21: a search answered 200 with an empty objects list and total 0 resolves
\* with that empty list: the answer is followed by no error, no backoff sleep
\* and no further attempt; the list is stored under the request URL like any
\* other success, and a later identical search is served from the cache.
C21_EmptySearchSucceeds ==
    /\ [](\A c \in Calls :
            EmptyMatch(c) =>
                /\ pc[c] \in {"gotResult", "resolved"}
                /\ result[c] = Returned(EmptySearch)
                /\ requests[c] = Len(log[c]))
    /\ [][\A c \in Calls :
            /\ (EmptyMatch(c) /\ Stored(c)) =>
                  Last(cache'.entries) = Entry(url[c], EmptySearch, now)
            /\ (/\ Made(c) /\ request'[c].op = "searchPackages"
                 /\ url'[c] \in Keys(cache.entries)
                 /\ Content(cache)[url'[c]] = EmptySearch)
                => (/\ pc'[c] = "resolved" /\ result'[c] = Returned(EmptySearch)
                    /\ requests'[c] = 0)]_vars

\* the search with limit 5 found nothing, and the same search made again was
\* served the empty list from the cache
C21_Witness ==
    /\ request[1] = Request("searchPackages", React, <<>>, 5, Omitted)
    /\ request[2] = request[1]
    /\ log[1] = <<Ok(EmptySearch)>> /\ pc[1] = "resolved" /\ requests[1] = 1
    /\ pc[2] = "resolved" /\ requests[2] = 0 /\ result[2] = Returned(EmptySearch)
    /\ Len(cache.entries) = 1

\* what a call asks for: its operation and arguments, with the search options
\* left out replaced by their defaults
Resource(r) ==
    IF r.op = "searchPackages"
    THEN [r EXCEPT !.limit = IF @ = Omitted THEN 20 ELSE @,
                   !.offset = IF @ = Omitted THEN 0 ELSE @]
    ELSE r

\* C22: the cache key of a call is the request URL it built; two searches
\* that differ in limit or offset have different keys, and each issues its own
\* network request, while two calls that resolve to the same URL (limit left
\* out and limit = 20) share one entry; and calls of the four operations for
\* different resources never share an entry: a call is served from the cache
\* only if an earlier call for the same resource fetched it.
C22_KeyIsRequestUrl ==
    /\ [](\A c \in MadeCalls : url[c] = RequestUrl(request[c]))
    /\ [](\A c, d \in MadeCalls :
            /\ Resource(request[c]) = Resource(request[d]) => url[c] = url[d]
            /\ Resource(request[c]) # Resource(request[d]) => url[c] # url[d])
    /\ [](\A c \in MadeCalls :
            (pc[c] = "resolved" /\ requests[c] = 0) =>
                \E d \in MadeCalls :
                    d < c /\ requests[d] >= 1 /\ Resource(request[d]) = Resource(request[c]))
    /\ [][\A c \in Calls : Stored(c) => Last(cache'.entries).key = url[c]]_vars

\* C23: for calls made one after the other: when a call for URL U has
\* completed successfully with any JSON body, the falsy bodies null, false, 0
\* and "" included, a later call for U made while the entry is in the cache
\* and within its TTL is served from the cache with the same body and makes
\* no network attempt.
C23_HitNeverRefetches ==
    [][\A c, d \in Calls :
          (/\ Made(c) /\ d < c
           /\ pc[d] = "resolved" /\ requests[d] >= 1 /\ url[d] = url'[c]
           /\ IsLive(url[d])
           /\ Content(cache)[url[d]] = result[d].value)
          => (/\ pc'[c] = "resolved"
              /\ requests'[c] = 0
              /\ result'[c] = result[d])]_vars

\* the entry stored under key k
EntryOf(c, k) == c.entries[IndexOf(c.entries, k)]

\* C24: an entry that exists and has not expired keeps its stored value and
\* its insertion time for as long as it exists: no step replaces or rewrites
\* them, whatever the interleaving of the calls, concurrent calls for the same
\* URL that both missed the cache included.
C24_EntryNeverRewritten ==
    [][\A k \in Keys(cache.entries) \cap Keys(cache'.entries) :
          ~IsStale(cache, EntryOf(cache, k), now) =>
              /\ EntryOf(cache', k).value = EntryOf(cache, k).value
              /\ EntryOf(cache', k).start = EntryOf(cache, k).start]_vars

\* C25: concurrent calls for the same uncached URL are not coalesced: a call
\* that finds no entry for its URL starts a network attempt of its own when a
\* slot is free, also while another call for the same URL has an attempt in
\* flight, and each call that fetched a value writes it to the cache under
\* the URL when it succeeds, whether or not an entry is there already.
C25_NoCoalescing ==
    [][\A c \in Calls :
          /\ (/\ Made(c)
               /\ url'[c] \notin Keys(cache.entries)
               /\ limiter.activeCount < limiter.concurrency)
              => (/\ pc'[c] = "fetching" /\ requests'[c] = 1
                  /\ \A d \in Calls \ {c} : pc'[d] = pc[d] /\ requests'[d] = requests[d])
          /\ Stored(c) =>
                /\ url[c] \in Keys(cache'.entries)
                /\ EntryOf(cache', url[c]) = Entry(url[c], result[c].value, now)]_vars

\* two calls for the same URL both missed the cache and both have their
\* first network attempt in flight
C25_Witness ==
    /\ url[1] # NoUrl /\ url[2] = url[1]
    /\ pc[1] = "fetching" /\ pc[2] = "fetching"
    /\ requests[1] = 1 /\ requests[2] = 1
    /\ log[1] = <<>> /\ log[2] = <<>>
    /\ cache.entries = <<>>

\* the calls in a backoff sleep
Sleeping == {c \in Calls : pc[c] = "sleeping"}

\* C26: a call keeps its one slot from its first attempt until it settles,
\* backoff sleeps included: going to sleep and waking up leave the limiter as
\* it is and start no other call, the calls in an attempt or in a backoff
\* sleep are at most N, and while N calls sleep a call that misses the cache
\* is queued without a network attempt.
C26_SlotHeldThroughBackoff ==
    /\ [](Cardinality(Holding) <= limiter.concurrency)
    /\ [][\A c \in Calls :
            /\ ( \/ pc[c] = "fetching" /\ pc'[c] = "sleeping"
                 \/ pc[c] = "sleeping" /\ pc'[c] = "fetching")
                => (/\ limiter' = limiter
                    /\ \A d \in Calls \ {c} : pc'[d] = pc[d])
            /\ (/\ Made(c)
                 /\ url'[c] \notin Keys(cache.entries)
                 /\ Cardinality(Sleeping) = limiter.concurrency)
                => (/\ pc'[c] = "queued" /\ requests'[c] = 0
                    /\ limiter'.queue = Append(limiter.queue, c)
                    /\ limiter'.activeCount = limiter.activeCount)]_vars

\* every slot is held by a call in its backoff sleep, and a call made
\* meanwhile waits in the queue without an attempt
C26_Witness ==
    /\ Cardinality(Sleeping) = limiter.concurrency
    /\ limiter.activeCount = limiter.concurrency
    /\ \E c \in Calls : pc[c] = "queued" /\ requests[c] = 0 /\ limiter.queue = <<c>>

\* C27: calls that miss the cache while every slot is held are granted
\* slots in the order in which they began to wait: a call that begins to wait
\* joins the queue at its end, the queue is never reordered, the call that
\* leaves the queue and starts its first attempt is the one at its head, and
\* no call starts while a call that began to wait before it is still waiting.
C27_FifoGrant ==
    [][/\ \A c \in Calls :
            /\ (Made(c) /\ pc'[c] = "queued") =>
                  limiter'.queue = Append(limiter.queue, c)
            /\ (pc[c] = "queued" /\ pc'[c] # "queued") =>
                  /\ c = Head(limiter.queue)
                  /\ limiter'.queue = Tail(limiter.queue)
                  /\ pc'[c] = "fetching" /\ requests'[c] = 1 /\ attempt'[c] = 0
       /\ \A i, j \in DOMAIN limiter.queue :
            (i < j /\ pc'[limiter.queue[j]] = "fetching") => pc'[limiter.queue[i]] # "queued"
       /\ \/ limiter'.queue = limiter.queue
          \/ limiter.queue # <<>> /\ limiter'.queue = Tail(limiter.queue)
          \/ \E c \in Calls : limiter'.queue = Append(limiter.queue, c)]_vars

\* with one slot: the second caller has been granted the slot from the queue
\* while the third caller, which began to wait after it, still waits, ahead
\* of a call that began to wait later still
C27_Witness ==
    /\ limiter.concurrency = 1
    /\ pc[2] = "fetching" /\ requests[2] = 1
    /\ limiter.queue = <<3, 1>>
    /\ requests[3] = 0 /\ requests[1] = 0

\* the answer is a transient failure: a 429 or a retryable network error
Transient(o) == Is(o, 429) \/ (o.kind = "neterr" /\ IsRetryableMessage(o.message))

\* C28: the retry budget of a call is one counter for all transient failures
\* and belongs to that call alone: whatever mix of 429 responses and network
\* errors it meets, the call makes at most maxRetries + 1 attempts, a
\* transient failure is retried exactly when the counter is below maxRetries,
\* whichever kind it is and whichever kinds came before, each retry adds
\* exactly 1 to the counter of that call and leaves the counters of the other
\* calls alone, and every call starts with its counter at 0.
C28_OneBudgetPerCall ==
    /\ [](\A c \in Calls :
            /\ requests[c] <= maxRetries + 1
            /\ attempt[c] <= maxRetries
            /\ requests[c] >= 1 => requests[c] = attempt[c] + 1)
    /\ [][\A c \in Calls :
            /\ (pc[c] = "fetching" /\ Len(log'[c]) > Len(log[c]) /\ Transient(Last(log'[c]))) =>
                  IF attempt[c] < maxRetries THEN pc'[c] = "sleeping"
                  ELSE pc'[c] = "rejected"
            /\ (pc[c] = "sleeping" /\ pc'[c] # "sleeping") =>
                  /\ pc'[c] = "fetching"
                  /\ attempt'[c] = attempt[c] + 1
                  /\ requests'[c] = requests[c] + 1
                  /\ \A d \in Calls \ {c} : attempt'[d] = attempt[d] /\ requests'[d] = requests[d]
            /\ (pc[c] \in {"idle", "queued"} /\ pc'[c] = "fetching") =>
                  attempt'[c] = 0 /\ requests'[c] = 1]_vars

\* with two retries: one call met 429, a connection reset and 429 and was
\* rejected after three attempts, while a concurrent call, which met a
\* connection reset first, is at its second attempt with a retry left
C28_Witness ==
    /\ maxRetries = 2
    /\ pc[1] = "rejected" /\ requests[1] = 3 /\ result[1].error = RateLimitError
    /\ Is(log[1][1], 429) /\ log[1][2].kind = "neterr" /\ Is(log[1][3], 429)
    /\ pc[2] = "fetching" /\ requests[2] = 2 /\ attempt[2] = 1
    /\ log[2] = <<NetworkError(<<"read", "ECONNRESET">>)>>

\* C29: every value given in the configuration is the value the client
\* uses, and a default applies only when the option is left out: with
\* maxRetries m configured, m = 0 included, a call makes at most m + 1 network
\* attempts.
C29_ConfiguredValuesUsed ==
    /\ cache.max = (IF config.cacheMaxSize = Omitted THEN 500 ELSE config.cacheMaxSize)
    /\ cache.ttl = (IF config.cacheTTL = Omitted THEN 300000 ELSE config.cacheTTL)
    /\ limiter.concurrency = (IF config.maxConcurrent = Omitted THEN 10 ELSE config.maxConcurrent)
    /\ config.maxRetries # Omitted => \A c \in Calls : requests[c] <= config.maxRetries + 1

\* the step by which clearCache() is called, recorded on handle c
Cleared(c) == pc[c] = "idle" /\ pc'[c] = "cleared"

\* C30: clearCache() empties the cache and touches nothing else: the calls
\* in flight or waiting, their attempts, the limiter and its queue stay as
\* they are; and a call that missed the cache before the clear and obtains
\* its value after it still stores the value, so that the cache holds an
\* entry again.
C30_ClearLeavesCallsAlone ==
    [][\A c \in Calls :
          /\ Cleared(c) =>
                /\ cache'.entries = <<>>
                /\ limiter' = limiter
                /\ \A d \in Calls \ {c} : pc'[d] = pc[d]
                /\ UNCHANGED <<url, attempt, result, requests, log>>
          /\ (Stored(c) /\ \E d \in Calls : d > c /\ pc[d] = "cleared") =>
                /\ cache'.entries # <<>>
                /\ EntryOf(cache', url[c]) = Entry(url[c], result[c].value, now)]_vars

\* the first call missed the cache, clearCache() was called while its attempt
\* was in flight, no call has been made since, and the cache holds the
\* document the first call then obtained and stored
C30_Witness ==
    /\ pc[1] = "resolved" /\ requests[1] = 1 /\ result[1].value = Doc1
    /\ pc[2] = "cleared"
    /\ \A c \in Calls : c > 2 => pc[c] = "idle"
    /\ Len(cache.entries) = 1 /\ EntryOf(cache, url[1]).value = Doc1

====
